---- MODULE Spec2Model ----
(***************************************************************************)
(* Model of rusty-pandas: the Series reduction engine (src/series/mod.rs)  *)
(* and the DataFrame built on it (src/dataframe/mod.rs).                   *)
(*                                                                         *)
(* An f64 is modelled exactly: a record [n, d, r] denoting the r-th root   *)
(* (r = 1 or 2) of the rational n/d in lowest terms.  d = 0 encodes the    *)
(* IEEE special values: 0/0 is NaN, 1/0 is +inf, -1/0 is -inf.  Rounding   *)
(* is not modelled.                                                        *)
(***************************************************************************)
EXTENDS Integers, Sequences, FiniteSets, TLC

VARIABLES ser, sop, sarg, sres, df, recv, top, tstat, steps, qres, grid,
          fin, pf, fout, pieces

vars == <<ser, sop, sarg, sres, df, recv, top, tstat, steps, qres, grid,
          fin, pf, fout, pieces>>
fvars == <<fin, pf, fout, pieces>>
svars == <<ser, sop, sarg, sres>>
tvars == <<df, recv, top, tstat, steps, qres, grid>>

(* ------------------------------ bounds --------------------------------- *)
MaxLen == 4
MaxPrefix == 2
MaxRows == 2
MaxCols == 2
MaxSteps == 1
MaxOver == 1
MaxStr == 3

(* ------------------------------- f64 ----------------------------------- *)
Abs(i) == IF i < 0 THEN -i ELSE i

Sign(i) == IF i < 0 THEN -1 ELSE IF i = 0 THEN 0 ELSE 1

RECURSIVE GCD(_, _)
GCD(a, b) == IF b = 0 THEN a ELSE GCD(b, a % b)

F(n, d) ==
  IF d = 0 THEN [n |-> Sign(n), d |-> 0, r |-> 1]
  ELSE LET g == GCD(Abs(n), Abs(d))
           s == Sign(d)
       IN [n |-> (s * n) \div g, d |-> (s * d) \div g, r |-> 1]

NaN == [n |-> 0, d |-> 0, r |-> 1]
Zero == F(0, 1)
One == F(1, 1)
Half == F(1, 2)

is_nan(x) == x.d = 0 /\ x.n = 0

IsInf(x) == x.d = 0 /\ x.n # 0

IsExact(x) == x.r = 1

FAdd(a, b) ==
  IF is_nan(a) \/ is_nan(b) THEN NaN
  ELSE IF IsInf(a) /\ IsInf(b) THEN (IF a.n = b.n THEN a ELSE NaN)
  ELSE IF IsInf(a) THEN a
  ELSE IF IsInf(b) THEN b
  ELSE F(a.n * b.d + b.n * a.d, a.d * b.d)

FNeg(a) == [n |-> -a.n, d |-> a.d, r |-> a.r]

FSub(a, b) == FAdd(a, FNeg(b))

FMul(a, b) ==
  IF is_nan(a) \/ is_nan(b) THEN NaN
  ELSE IF IsInf(a) \/ IsInf(b) THEN F(Sign(a.n) * Sign(b.n), 0)
  ELSE F(a.n * b.n, a.d * b.d)

FDiv(a, b) ==
  IF is_nan(a) \/ is_nan(b) THEN NaN
  ELSE IF IsInf(a) THEN (IF IsInf(b) THEN NaN
                         ELSE F(a.n * (IF b.n < 0 THEN -1 ELSE 1), 0))
  ELSE IF IsInf(b) THEN Zero
  ELSE IF b.n = 0 THEN F(Sign(a.n), 0)
  ELSE F(a.n * b.d, a.d * b.n)

\* IEEE comparisons: every comparison with NaN is false.
FLt(a, b) ==
  IF is_nan(a) \/ is_nan(b) THEN FALSE
  ELSE IF IsInf(a) THEN a.n < 0 /\ ~(IsInf(b) /\ b.n < 0)
  ELSE IF IsInf(b) THEN b.n > 0
  ELSE a.n * b.d < b.n * a.d

FGt(a, b) == FLt(b, a)

FEq(a, b) == ~is_nan(a) /\ ~is_nan(b) /\ a = b

FNe(a, b) == ~FEq(a, b)

ISqrt(k) == CHOOSE i \in 0..k : i * i <= k /\ (i + 1) * (i + 1) > k

sqrt(x) ==
  IF is_nan(x) THEN NaN
  ELSE IF IsInf(x) THEN (IF x.n > 0 THEN x ELSE NaN)
  ELSE IF x.n < 0 THEN NaN
  ELSE IF ISqrt(x.n) * ISqrt(x.n) = x.n /\ ISqrt(x.d) * ISqrt(x.d) = x.d
       THEN F(ISqrt(x.n), ISqrt(x.d))
  ELSE [n |-> x.n, d |-> x.d, r |-> 2]

(* ------------------------------ binding ------------------------------- *)
\* A `let` of the source: Only({Body(v) : v \in {e}}) computes e once and
\* hands its value to Body.
Only(S) == CHOOSE v \in S : TRUE

(* ------------------------- results and panics -------------------------- *)
Ok(v) == [ok |-> TRUE, val |-> v]
Panic == [ok |-> FALSE, val |-> <<>>]

(* ------------------------------ Series --------------------------------- *)
LOWER_PAR_BOUND == 8192

\* Vec slice data[a..b] with 0-based, end-exclusive bounds.
Slice0(data, a, b) == SubSeq(data, a + 1, b)

Series_zero == <<>>

Series_size(s) == Len(s)

Series_is_empty(s) == Series_size(s) = 0

\* iloc that answers an index past the end with the last element.
iloc_clamped(s, idx) ==
  IF Len(s) = 0 THEN Panic
  ELSE IF idx < Len(s) THEN Ok(s[idx + 1]) ELSE Ok(s[Len(s)])

\* iloc panics ("Not a valid index") when idx >= size; idx is 0-based.
Series_iloc(s, idx) == IF idx < Len(s) THEN Ok(s[idx + 1]) ELSE Panic

\* Every method that dispatches on the size has its two branches as
\* operators of their own: x_seq is the branch taken below LOWER_PAR_BOUND
\* (into_iter / iter) and x_par the branch taken from it on (into_par_iter /
\* par_iter).  filter and map of an indexed parallel iterator collect in
\* source order.
dropna_seq(s) == SelectSeq(s, LAMBDA x : ~is_nan(x))

\* dropna_par with the kept values collected in the opposite order.
dropna_unordered(s) ==
  [k \in 1..Len(SelectSeq(s, LAMBDA x : ~is_nan(x))) |->
     SelectSeq(s, LAMBDA x : ~is_nan(x))
       [Len(SelectSeq(s, LAMBDA x : ~is_nan(x))) + 1 - k]]

dropna_par(s) == SelectSeq(s, LAMBDA x : ~is_nan(x))

Series_dropna(s) ==
  IF Series_size(s) < LOWER_PAR_BOUND THEN dropna_seq(s) ELSE dropna_par(s)

isna_seq(s) == [i \in 1..Len(s) |-> IF is_nan(s[i]) THEN One ELSE Zero]

isna_par(s) == [i \in 1..Len(s) |-> IF is_nan(s[i]) THEN One ELSE Zero]

Series_isna(s) ==
  IF Series_size(s) < LOWER_PAR_BOUND THEN isna_seq(s) ELSE isna_par(s)

notna_seq(s) == [i \in 1..Len(s) |-> IF ~is_nan(s[i]) THEN One ELSE Zero]

notna_par(s) == [i \in 1..Len(s) |-> IF ~is_nan(s[i]) THEN One ELSE Zero]

Series_notna(s) ==
  IF Series_size(s) < LOWER_PAR_BOUND THEN notna_seq(s) ELSE notna_par(s)

\* The closures handed to the iterator adaptors, by name.
ReduceOp(kind, x, y) ==
  CASE kind = "sum" -> FAdd(x, y)
    [] kind = "prod" -> FMul(x, y)
    [] kind = "min" -> IF FLt(x, y) THEN x ELSE y
    [] kind = "max" -> IF FGt(x, y) THEN x ELSE y

\* The left fold acc op s[lo] op ... op s[hi], in this order: the fold of
\* the upper half starts from the fold of the lower half.
RECURSIVE FoldRange(_, _, _, _, _)
FoldRange(kind, acc, s, lo, hi) ==
  IF hi < lo THEN acc
  ELSE IF hi = lo THEN ReduceOp(kind, acc, s[lo])
  ELSE Only({FoldRange(kind, a, s, (lo + hi) \div 2 + 1, hi) :
               a \in {FoldRange(kind, acc, s, lo, (lo + hi) \div 2)}})

\* Iterator::sum / Iterator::product: a left fold from the identity, over
\* s[i..].
SeqFold(kind, acc, s, i) == FoldRange(kind, acc, s, i, Len(s))

\* Iterator::reduce: None on an empty iterator, else a left fold from the
\* first element.
SeqReduce(kind, s) ==
  IF Len(s) = 0 THEN Panic ELSE Ok(SeqFold(kind, s[1], s, 2))

\* rayon reduce(identity, op) / sum / product over s[lo..hi]: the range is
\* split in halves, every leaf folds its items into a fresh identity and the
\* partial results are combined left to right.
RECURSIVE ParReduce(_, _, _, _, _)
ParReduce(kind, identity, s, lo, hi) ==
  IF hi < lo THEN identity
  ELSE IF hi = lo THEN ReduceOp(kind, identity, s[lo])
  ELSE Only({ReduceOp(kind, l, r) :
               l \in {ParReduce(kind, identity, s, lo, (lo + hi) \div 2)},
               r \in {ParReduce(kind, identity, s, (lo + hi) \div 2 + 1, hi)}})

sum_seq(s) ==
  Only({<<SeqFold("sum", Zero, valid, 1)>> : valid \in {Series_dropna(s)}})

sum_par(s) ==
  Only({<<ParReduce("sum", Zero, valid, 1, Len(valid))>> :
          valid \in {Series_dropna(s)}})

Series_sum(s) ==
  IF Series_size(s) < LOWER_PAR_BOUND THEN sum_seq(s) ELSE sum_par(s)

prod_seq(s) ==
  Only({<<SeqFold("prod", One, valid, 1)>> : valid \in {Series_dropna(s)}})

prod_par(s) ==
  Only({<<ParReduce("prod", One, valid, 1, Len(valid))>> :
          valid \in {Series_dropna(s)}})

Series_prod(s) ==
  IF Series_size(s) < LOWER_PAR_BOUND THEN prod_seq(s) ELSE prod_par(s)

\* par_sort_by(partial_cmp) on the NaN-free data: a stable ascending sort.
RECURSIVE InsertSorted(_, _)
InsertSorted(sorted, x) ==
  IF Len(sorted) = 0 THEN <<x>>
  ELSE IF FLt(x, sorted[Len(sorted)])
       THEN Append(InsertSorted(SubSeq(sorted, 1, Len(sorted) - 1), x),
                   sorted[Len(sorted)])
       ELSE Append(sorted, x)

RECURSIVE SortFrom(_, _, _)
SortFrom(acc, s, i) ==
  IF i > Len(s) THEN acc ELSE SortFrom(InsertSorted(acc, s[i]), s, i + 1)

Series_sort(s) ==
  Only({SortFrom(<<>>, valid, 1) : valid \in {Series_dropna(s)}})

Series_mean(s) ==
  IF Series_is_empty(s) THEN Series_zero
  ELSE <<FDiv(Series_sum(s)[1], F(Series_size(s), 1))>>

MedianOf(s, valid, sorted) ==
  LET h == Series_size(valid) \div 2
  IN IF Series_is_empty(valid) THEN Series_zero
     ELSE IF Series_size(valid) = 1 THEN s
     ELSE IF Series_size(valid) % 2 = 1 THEN <<sorted[h + 1]>>
     ELSE <<FMul(FAdd(sorted[h], sorted[h + 1]), Half)>>

Series_median(s) ==
  Only({Only({MedianOf(s, valid, sorted) : sorted \in {Series_sort(valid)}}) :
          valid \in {Series_dropna(s)}})

\* The boundary indices (0-based) pushed by the loop of mode.
ModeIndices(data) ==
  LET pos == SelectSeq([i \in 1..(Len(data) - 1) |-> i],
                       LAMBDA i : FNe(data[i], data[i + 1]))
  IN pos

ModeGroups(data) ==
  LET indices == ModeIndices(data)
      k == Len(indices)
  IN <<Slice0(data, 0, indices[1])>>
       \o [w \in 1..(k - 1) |-> Slice0(data, indices[w], indices[w + 1])]
       \o <<Slice0(data, indices[k], Len(data))>>

\* rayon max_by_key: of several items with the greatest key the last wins.
MaxByKeyLen(groups) ==
  LET best == CHOOSE g \in 1..Len(groups) :
                /\ \A h \in 1..Len(groups) : Len(groups[h]) <= Len(groups[g])
                /\ \A h \in (g + 1)..Len(groups) : Len(groups[h]) < Len(groups[g])
  IN groups[best]

ModeOf(s, valid, data) ==
  IF Series_is_empty(valid) THEN Ok(Series_zero)
  ELSE IF Series_size(valid) = 1 THEN Ok(s)
  ELSE IF Len(ModeIndices(data)) = 0 THEN Panic
  ELSE Ok(MaxByKeyLen(ModeGroups(data)))

Series_mode(s) ==
  Only({Only({ModeOf(s, valid, data) : data \in {Series_sort(valid)}}) :
          valid \in {Series_dropna(s)}})

SquaredDev(valid, mean) ==
  [i \in 1..Len(valid) |-> FMul(FSub(valid[i], mean), FSub(valid[i], mean))]

\* The squared deviations of valid from its mean, and n - 1.
VarTerms(valid) ==
  Only({[sq |-> SquaredDev(valid, mean), n1 |-> FSub(F(Series_size(valid), 1), One)] :
          mean \in {Series_mean(valid)[1]}})

var_seq(s) ==
  Only({IF Series_is_empty(valid) THEN Series_zero
        ELSE Only({<<FDiv(SeqFold("sum", Zero, t.sq, 1), t.n1)>> :
                     t \in {VarTerms(valid)}}) :
          valid \in {Series_dropna(s)}})

var_par(s) ==
  Only({IF Series_is_empty(valid) THEN Series_zero
        ELSE Only({<<FDiv(ParReduce("sum", Zero, t.sq, 1, Len(t.sq)), t.n1)>> :
                     t \in {VarTerms(valid)}}) :
          valid \in {Series_dropna(s)}})

Series_var(s) ==
  IF Series_size(s) < LOWER_PAR_BOUND THEN var_seq(s) ELSE var_par(s)

\* `if variance.is_empty() { Series::zero(); }` discards the value: iloc(0)
\* runs next and panics on the empty variance.
Series_std(s) ==
  Only({IF ~Series_iloc(variance, 0).ok THEN Panic
        ELSE Ok(<<sqrt(Series_iloc(variance, 0).val)>>) :
          variance \in {Series_var(s)}})

\* `if self.is_empty() { Series::zero(); }` discards the value as well.
\* reduce(..).unwrap() panics when no value is left after dropna.
extremum_seq(kind, s) ==
  Only({IF m.ok THEN Ok(<<m.val>>) ELSE Panic :
          m \in {Only({SeqReduce(kind, dropna) :
                         dropna \in {Series_dropna(s)}})}})

\* reduce(|| &0.0, ..): the identity 0.0 takes part in the comparison.
extremum_par(kind, s) ==
  Only({Ok(<<ParReduce(kind, Zero, dropna, 1, Len(dropna))>>) :
          dropna \in {Series_dropna(s)}})

Series_min(s) ==
  IF Series_size(s) < LOWER_PAR_BOUND
  THEN extremum_seq("min", s) ELSE extremum_par("min", s)

Series_max(s) ==
  IF Series_size(s) < LOWER_PAR_BOUND
  THEN extremum_seq("max", s) ELSE extremum_par("max", s)

Series_plus(s, n) == [i \in 1..Len(s) |-> FAdd(s[i], n)]
Series_sub(s, n) == [i \in 1..Len(s) |-> FSub(s[i], n)]
Series_mult(s, n) == [i \in 1..Len(s) |-> FMul(s[i], n)]
Series_div(s, n) == [i \in 1..Len(s) |-> FDiv(s[i], n)]

CUMSUM_CUTOFF == 512

\* The local fn prefix_sum of cumsum: (exclusive prefix sums, total).
\* Below the cutoff: pfs = [0.0, sum(xs[0..1]), .., sum(xs[0..len])], split
\* into all but the last and the last.
IterativeScan(xs) ==
  Only({[pfs |-> SubSeq(pfs, 1, Len(pfs) - 1), sum |-> pfs[Len(pfs)]] :
          pfs \in {<<Zero>> \o [i \in 1..Len(xs) |->
                                  FoldRange("sum", Zero, xs, 1, i)]}})

\* xs[i*2] + xs[i*2+1] for i in 0..half.
PairSums(xs) ==
  [i \in 1..(Len(xs) \div 2) |-> FAdd(xs[2 * i - 1], xs[2 * i])]

\* Expand without the odd tail.
ExpandPairsOnly(xs, c) ==
  [pfs |-> [j \in 1..(2 * (Len(xs) \div 2)) |->
              IF j % 2 = 1 THEN c.pfs[(j + 1) \div 2]
              ELSE FAdd(c.pfs[j \div 2], xs[j - 1])],
   sum |-> c.sum]

\* flat_map(|i| vec![c_prefix[i], c_prefix[i] + xs[2*i]]), then the odd
\* tail: push c_sum; c_sum += xs[len - 1].
Expand(xs, c) ==
  Only({IF Len(xs) % 2 = 1
        THEN [pfs |-> Append(pfs, c.sum), sum |-> FAdd(c.sum, xs[Len(xs)])]
        ELSE [pfs |-> pfs, sum |-> c.sum] :
          pfs \in {[j \in 1..(2 * (Len(xs) \div 2)) |->
                      IF j % 2 = 1 THEN c.pfs[(j + 1) \div 2]
                      ELSE FAdd(c.pfs[j \div 2], xs[j - 1])]}})

RECURSIVE prefix_sum(_)
prefix_sum(xs) ==
  IF Len(xs) = 0 THEN [pfs |-> <<>>, sum |-> Zero]
  ELSE IF Len(xs) < CUMSUM_CUTOFF THEN IterativeScan(xs)
  ELSE Only({Only({Expand(xs, c) : c \in {prefix_sum(pairs)}}) :
               pairs \in {PairSums(xs)}})

\* pfs.drain(0..1) panics on the empty vector.
Series_cumsum(s) ==
  Only({IF Len(p.pfs) = 0 THEN Panic ELSE Ok(Append(Tail(p.pfs), p.sum)) :
          p \in {prefix_sum(s)}})

\* std::cmp::max(start, 0) is the identity on usize; data[start..end] panics
\* when start > end or end > len.
Series_slice(s, start, end) ==
  LET e == IF end < Series_size(s) THEN end ELSE Series_size(s)
  IN IF start > e THEN Panic ELSE Ok(Slice0(s, start, e))

\* Vec<f64> equality: element-wise IEEE ==, so a NaN equals nothing.
Series_eq(a, b) ==
  Len(a) = Len(b) /\ \A i \in 1..Len(a) : FEq(a[i], b[i])

\* dot, vadd, vsub: panic!("Series must have same dimensions") on Series of
\* different sizes, else the zipped pairs are combined.
Series_dot(s, other) ==
  IF Series_size(s) # Series_size(other) THEN Panic
  ELSE Only({Ok(<<ParReduce("sum", Zero, products, 1, Len(products))>>) :
               products \in {[i \in 1..Len(s) |-> FMul(s[i], other[i])]}})

\* vadd without the size check: zip stops at the shorter Series.
vadd_truncating(s, other) ==
  Ok([i \in 1..(IF Len(s) < Len(other) THEN Len(s) ELSE Len(other)) |->
        FAdd(s[i], other[i])])

Series_vadd(s, other) ==
  IF Series_size(s) # Series_size(other) THEN Panic
  ELSE Ok([i \in 1..Len(s) |-> FAdd(s[i], other[i])])

Series_vsub(s, other) ==
  IF Series_size(s) # Series_size(other) THEN Panic
  ELSE Ok([i \in 1..Len(s) |-> FSub(s[i], other[i])])

\* The branch of a dispatching method taken below LOWER_PAR_BOUND.
Sequential(m, s) ==
  CASE m = "sum" -> Ok(sum_seq(s))
    [] m = "prod" -> Ok(prod_seq(s))
    [] m = "min" -> extremum_seq("min", s)
    [] m = "max" -> extremum_seq("max", s)
    [] m = "var" -> Ok(var_seq(s))
    [] m = "dropna" -> Ok(dropna_seq(s))
    [] m = "isna" -> Ok(isna_seq(s))
    [] m = "notna" -> Ok(notna_seq(s))

\* The branch of a dispatching method taken from LOWER_PAR_BOUND on.
Parallel(m, s) ==
  CASE m = "sum" -> Ok(sum_par(s))
    [] m = "prod" -> Ok(prod_par(s))
    [] m = "min" -> extremum_par("min", s)
    [] m = "max" -> extremum_par("max", s)
    [] m = "var" -> Ok(var_par(s))
    [] m = "dropna" -> Ok(dropna_par(s))
    [] m = "isna" -> Ok(isna_par(s))
    [] m = "notna" -> Ok(notna_par(s))

\* A Series method by name, as parse_axis! splices it in.
SeriesMethod(m, s) ==
  CASE m = "sum" -> Ok(Series_sum(s))
    [] m = "prod" -> Ok(Series_prod(s))
    [] m = "mean" -> Ok(Series_mean(s))
    [] m = "median" -> Ok(Series_median(s))
    [] m = "mode" -> Series_mode(s)
    [] m = "var" -> Ok(Series_var(s))
    [] m = "std" -> Series_std(s)
    [] m = "min" -> Series_min(s)
    [] m = "max" -> Series_max(s)
    [] m = "cumsum" -> Series_cumsum(s)
    [] m = "dropna" -> Ok(Series_dropna(s))
    [] m = "isna" -> Ok(Series_isna(s))
    [] m = "notna" -> Ok(Series_notna(s))

(* -------------------------- funky_functions --------------------------- *)
\* i32::MAX, the largest element and sum of the scan.
I32_MAX == 2147483647

\* i32 addition, wrapping at 32 bits.
Add32(a, b) ==
  IF a > 0 /\ b > 0 /\ a > I32_MAX - b
  THEN (a - I32_MAX - 1) + (b - I32_MAX - 1)
  ELSE IF a < 0 /\ b < 0 /\ a < (-I32_MAX - 1) - b
  THEN (a + I32_MAX + 1) + (b + I32_MAX + 1)
  ELSE a + b

\* The length from which prefix_sum recurses on pair sums.
SCAN_CUTOFF == 8192

\* The running sums of l followed by those of r carried on from the last
\* one of l.
JoinSums32(l, r) == l \o [j \in 1..Len(r) |-> Add32(l[Len(l)], r[j])]

\* <<sum(xs[lo..lo]), sum(xs[lo..lo+1]), .., sum(xs[lo..hi])>>: in wrapping
\* i32 arithmetic xs[0..i+1].iter().sum() is xs[0..i].iter().sum() + xs[i],
\* so the sums of a range are those of its lower half followed by those of
\* its upper half carried on.
RECURSIVE Sums32(_, _, _)
Sums32(xs, lo, hi) ==
  IF hi < lo THEN <<>>
  ELSE IF hi = lo THEN <<xs[lo]>>
  ELSE Only({JoinSums32(l, r) :
               l \in {Sums32(xs, lo, (lo + hi) \div 2)},
               r \in {Sums32(xs, (lo + hi) \div 2 + 1, hi)}})

\* prefix_sum below the cutoff: pfs = [0, sum(xs[0..1]), .., sum(xs[0..len])],
\* split into all but the last and the last.
IterativeScan32(xs) ==
  Only({[pfs |-> SubSeq(pfs, 1, Len(pfs) - 1), sum |-> pfs[Len(pfs)]] :
          pfs \in {<<0>> \o Sums32(xs, 1, Len(xs))}})

\* xs[i*2] + xs[i*2+1] for i in 0..half.
PairSums32(xs) ==
  [i \in 1..(Len(xs) \div 2) |-> Add32(xs[2 * i - 1], xs[2 * i])]

\* Expand32 whose odd tail leaves the total as the recursion returned it.
Expand32StaleSum(xs, c) ==
  Only({IF Len(xs) % 2 = 1
        THEN [pfs |-> Append(pfs, c.sum), sum |-> c.sum]
        ELSE [pfs |-> pfs, sum |-> c.sum] :
          pfs \in {[j \in 1..(2 * (Len(xs) \div 2)) |->
                      IF j % 2 = 1 THEN c.pfs[(j + 1) \div 2]
                      ELSE Add32(c.pfs[j \div 2], xs[j - 1])]}})

\* flat_map(|i| vec![c_prefix[i], c_prefix[i] + xs[2*i]]), then the odd
\* tail: push c_sum; c_sum += xs[len - 1].
Expand32(xs, c) ==
  Only({IF Len(xs) % 2 = 1
        THEN [pfs |-> Append(pfs, c.sum), sum |-> Add32(c.sum, xs[Len(xs)])]
        ELSE [pfs |-> pfs, sum |-> c.sum] :
          pfs \in {[j \in 1..(2 * (Len(xs) \div 2)) |->
                      IF j % 2 = 1 THEN c.pfs[(j + 1) \div 2]
                      ELSE Add32(c.pfs[j \div 2], xs[j - 1])]}})

\* fn prefix_sum(xs: &[i32]) -> (Vec<i32>, i32).
RECURSIVE prefix_sum_i32(_)
prefix_sum_i32(xs) ==
  IF Len(xs) = 0 THEN [pfs |-> <<>>, sum |-> 0]
  ELSE IF Len(xs) < SCAN_CUTOFF THEN IterativeScan32(xs)
  ELSE Only({Only({Expand32(xs, c) : c \in {prefix_sum_i32(pairs)}}) :
               pairs \in {PairSums32(xs)}})

\* A predicate p: Fn((usize, char)) -> bool, by its kind.
Applies(p, elt) ==
  CASE p.kind = "char" -> elt[2] = p.ch
    [] p.kind = "even" -> elt[1] % 2 = 0
    [] p.kind = "all" -> TRUE
    [] p.kind = "none" -> FALSE

\* st_buf.chars().enumerate().collect(): the pairs (index, char), 0-based.
Enumerated(st) == [i \in 1..Len(st) |-> <<i - 1, st[i]>>]

\* A slot of the output buffer that set_len exposed and nobody wrote.
Uninit == -1

\* What an unwritten slot may hold when it is read.
Garbage == {0, 1}

\* par_filter up to the parallel fill: the mask, its scan and the output
\* buffer of n_filtered unwritten slots; writes[k] holds the source indices
\* that wrote slot k - 1, pending the source indices for_each has to visit.
Alloc(xs, p) ==
  Only({Only({[pc |-> "fill", mask |-> binary_xs, indices |-> sc.pfs,
               n |-> sc.sum,
               output |-> [k \in 1..sc.sum |-> Uninit],
               writes |-> [k \in 1..sc.sum |-> {}],
               pending |-> 0..(Len(xs) - 1)] :
                sc \in {prefix_sum_i32(binary_xs)}}) :
          binary_xs \in {[i \in 1..Len(xs) |->
                            IF Applies(p, xs[i]) THEN 1 ELSE 0]}})

\* The destination of source index i taken for the source index itself.
out_idx_source(indices, i) == i

\* let out_idx = indices[i] as usize, for the 0-based source index i.
out_idx(indices, i) == indices[i + 1]

\* The value written for a source element without the + 1.
written_plain(elem) == elem[1]

\* output_us.write(out_idx, elem.0 + 1): the value written.
written(elem) == elem[1] + 1

\* One call of the closure of for_each, for the 0-based source index i:
\* UnsafeSlice::write indexes the slice, which panics past its end.
WriteStep(f, xs, i) ==
  IF f.mask[i + 1] # 1 THEN [f EXCEPT !.pending = @ \ {i}]
  ELSE IF out_idx(f.indices, i) < 0 \/ out_idx(f.indices, i) >= f.n
  THEN [f EXCEPT !.pc = "panic", !.pending = @ \ {i}]
  ELSE [f EXCEPT !.output[out_idx(f.indices, i) + 1] = written(xs[i + 1]),
                 !.writes[out_idx(f.indices, i) + 1] = @ \cup {i},
                 !.pending = @ \ {i}]

\* What the caller may read from the buffer once for_each has joined.
Returned(output) ==
  IF \A k \in 1..Len(output) : output[k] # Uninit THEN {Ok(output)}
  ELSE {Ok([k \in 1..Len(output) |->
              IF output[k] = Uninit THEN g ELSE output[k]]) : g \in Garbage}

\* The writers of every destination, for the source indices lo..hi: the
\* writers for the lower half merged with those for the upper half.
MergeWriters(f, g) ==
  [k \in DOMAIN f \cup DOMAIN g |->
     (IF k \in DOMAIN f THEN f[k] ELSE {})
       \cup (IF k \in DOMAIN g THEN g[k] ELSE {})]

RECURSIVE WritersIn(_, _, _)
WritersIn(f, lo, hi) ==
  IF hi < lo THEN [k \in {} |-> {}]
  ELSE IF hi = lo
  THEN (IF f.mask[lo + 1] = 1 THEN [k \in {out_idx(f.indices, lo)} |-> {lo}]
        ELSE [k \in {} |-> {}])
  ELSE Only({MergeWriters(l, r) :
               l \in {WritersIn(f, lo, (lo + hi) \div 2)},
               r \in {WritersIn(f, (lo + hi) \div 2 + 1, hi)}})

\* The frames for_each may leave behind when every closure has run: a slot
\* written by several source indices holds the value of any of them.
Filled(f, xs, w) ==
  IF \E k \in DOMAIN w : k < 0 \/ k >= f.n
  THEN {[f EXCEPT !.pc = "panic", !.pending = {}]}
  ELSE IF \A k \in DOMAIN w : Cardinality(w[k]) = 1
  THEN {[f EXCEPT !.pending = {},
                  !.writes = [k \in 1..f.n |->
                                IF k - 1 \in DOMAIN w THEN w[k - 1] ELSE {}],
                  !.output = [k \in 1..f.n |->
                                IF k - 1 \in DOMAIN w
                                THEN written(xs[Only(w[k - 1]) + 1])
                                ELSE Uninit]]}
  ELSE {[f EXCEPT !.pending = {},
                  !.writes = [k \in 1..f.n |->
                                IF k - 1 \in DOMAIN w THEN w[k - 1] ELSE {}],
                  !.output = out] :
          out \in {o \in [1..f.n -> {Uninit} \cup {written(xs[i + 1]) :
                                                    i \in 0..(Len(xs) - 1)}] :
                     \A k \in 1..f.n :
                       IF k - 1 \in DOMAIN w
                       THEN \E i \in w[k - 1] : o[k] = written(xs[i + 1])
                       ELSE o[k] = Uninit}}

\* pub fn par_filter(xs, p): the frames it may end in.
par_filter(xs, p) ==
  Only({Only({Filled(f, xs, w) : w \in {WritersIn(f, 0, Len(xs) - 1)}}) :
          f \in {Alloc(xs, p)}})

\* &st_buf[chunk[0]..chunk[1]-1] for every window of two boundaries: the
\* slice panics when its start is past its end or its end past the string.
Windows(st, indices) ==
  IF \E k \in 1..(Len(indices) - 1) :
       \/ indices[k + 1] - 1 < indices[k]
       \/ indices[k + 1] - 1 > Len(st)
  THEN Panic
  ELSE Ok([k \in 1..(Len(indices) - 1) |->
             SubSeq(st, indices[k] + 1, indices[k + 1] - 1)])

\* Boundaries that end at len instead of len + 1.
BoundariesShort(st, filtered) == <<0>> \o filtered \o <<Len(st)>>

\* The boundaries of par_split: 0, what par_filter returned, len + 1.
Boundaries(st, filtered) == <<0>> \o filtered \o <<Len(st) + 1>>

(* ----------------------------- DataFrame ------------------------------- *)
\* Option<Vec<String>>
None == [some |-> FALSE, val |-> <<>>]
Some(h) == [some |-> TRUE, val |-> h]

gen_default_header(len) == [i \in 1..len |-> ToString(i - 1)]

\* An operator that reads an argument many times binds it to the one element
\* of a singleton set first, so that the argument is computed once.

\* transpose without the last row.
TransposeShort(m) ==
  IF Len(m) = 0 THEN Ok(m)
  ELSE IF \E j \in 1..Len(m) : Len(m[1]) > 0 /\ ~Series_iloc(m[j], Len(m[1]) - 1).ok
       THEN Panic
       ELSE Ok([i \in 1..(Len(m[1]) - 1) |-> [j \in 1..Len(m) |-> m[j][i]]])

\* transpose reads c.iloc(i) for every i below mat[0].size() and every c:
\* it panics when some Series is shorter than the first one.
TransposeOf(mat) ==
  IF Len(mat) = 0 THEN Ok(mat)
  ELSE IF \E j \in 1..Len(mat) : Len(mat[1]) > 0 /\ ~Series_iloc(mat[j], Len(mat[1]) - 1).ok
       THEN Panic
       ELSE Ok([i \in 1..Len(mat[1]) |-> [j \in 1..Len(mat) |-> mat[j][i]]])

transpose(mat) == Only({TransposeOf(m) : m \in {mat}})

NewOf(data, header_row, t) ==
  LET rows == t.val
      first == IF Len(rows) > 0 THEN rows[1] ELSE Series_zero
  IN IF ~t.ok THEN Panic
     ELSE Ok([header_row |-> IF header_row.some THEN header_row.val
                             ELSE gen_default_header(Series_size(first)),
              cols |-> data,
              rows |-> rows,
              size |-> Len(rows) * Len(data)])

DataFrame_new(data, header_row) ==
  Only({NewOf(d, header_row, transpose(d)) : d \in {data}})

\* pub fn size: the number of columns.
DataFrame_size(self) == Len(self.cols)

\* self.cols[col].clone(): the index panics past the last column.
DataFrame_icol(self, col) ==
  IF col < Len(self.cols) THEN Ok(self.cols[col + 1]) ELSE Panic

\* loc_col that looks for the last column of that name.
loc_col_last(self, col_name) ==
  IF \A j \in 1..Len(self.header_row) : self.header_row[j] # col_name
  THEN Ok(None)
  ELSE Only({IF c.ok THEN Ok(Some(c.val)) ELSE Panic :
               c \in {DataFrame_icol(self,
                        (CHOOSE j \in 1..Len(self.header_row) :
                           /\ self.header_row[j] = col_name
                           /\ \A k \in (j + 1)..Len(self.header_row) :
                                self.header_row[k] # col_name) - 1)}})

\* header_row.iter().position(|c| c == col_name), then icol of it.
DataFrame_loc_col(self, col_name) ==
  IF \A j \in 1..Len(self.header_row) : self.header_row[j] # col_name
  THEN Ok(None)
  ELSE Only({IF c.ok THEN Ok(Some(c.val)) ELSE Panic :
               c \in {DataFrame_icol(self,
                        (CHOOSE j \in 1..Len(self.header_row) :
                           /\ self.header_row[j] = col_name
                           /\ \A k \in 1..(j - 1) :
                                self.header_row[k] # col_name) - 1)}})

\* impl PartialEq for DataFrame: the sizes, then the headers and the columns
\* (Vec<Series> equality, element by element).
DataFrame_eq(self, other) ==
  IF DataFrame_size(self) # DataFrame_size(other) THEN FALSE
  ELSE /\ self.header_row = other.header_row
       /\ Len(self.cols) = Len(other.cols)
       /\ \A j \in 1..Len(self.cols) : Series_eq(self.cols[j], other.cols[j])

\* The map over the chosen axis; a panic in one element panics the call.
MapSeries(m, src) ==
  IF \E i \in 1..Len(src) : ~SeriesMethod(m, src[i]).ok THEN Panic
  ELSE Ok([i \in 1..Len(src) |-> SeriesMethod(m, src[i]).val])

Collected(mapped, header_row) ==
  IF mapped.ok THEN DataFrame_new(mapped.val, header_row) ELSE Panic

parse_axis(self, m, axis) ==
  IF axis = 0
  THEN (IF Len(self.cols) < LOWER_PAR_BOUND
        THEN Only({Collected(r, Some(self.header_row)) : r \in {MapSeries(m, self.cols)}})
        ELSE Only({Collected(r, Some(self.header_row)) : r \in {MapSeries(m, self.cols)}}))
  ELSE (IF Len(self.rows) < LOWER_PAR_BOUND
        THEN Only({Collected(r, None) : r \in {MapSeries(m, self.rows)}})
        ELSE Only({Collected(r, None) : r \in {MapSeries(m, self.rows)}}))

\* NoNa with is_true comparing against 0.0: keeps the Series without a valid cell.
NoNaZero(s) == ~\E i \in 1..Len(s) : FEq(Series_isna(s)[i], Zero)

\* The filter closure of dropna: no element of isna() equals 1.0.
NoNa(s) == ~\E i \in 1..Len(s) : FEq(Series_isna(s)[i], One)

DataFrame_dropna(self, axis) ==
  IF axis = 0
  THEN DataFrame_new(SelectSeq(self.cols, NoNa), Some(self.header_row))
  ELSE DataFrame_new(SelectSeq(self.rows, NoNa), None)

ReduceValid(valid, m, axis) ==
  IF ~valid.ok THEN Panic ELSE parse_axis(valid.val, m, axis)

DataFrame_var(self, axis) ==
  Only({ReduceValid(valid, "var", axis) : valid \in {DataFrame_dropna(self, axis)}})

DataFrame_std(self, axis) ==
  Only({ReduceValid(valid, "std", axis) : valid \in {DataFrame_dropna(self, axis)}})

\* sum, prod, mean, median, mode, min, max, cumsum expand parse_axis! on self.
DataFrame_reduce(self, m, axis) ==
  CASE m = "var" -> DataFrame_var(self, axis)
    [] m = "std" -> DataFrame_std(self, axis)
    [] OTHER -> parse_axis(self, m, axis)

DataFrame_copy(self) == DataFrame_new(self.cols, Some(self.header_row))

Sliced(sliced, header_row) ==
  IF \E j \in 1..Len(sliced) : ~sliced[j].ok THEN Panic
  ELSE DataFrame_new([j \in 1..Len(sliced) |-> sliced[j].val], Some(header_row))

DataFrame_head(self, n) ==
  Only({Sliced(sliced, self.header_row) :
          sliced \in {[j \in 1..Len(self.cols) |-> Series_slice(self.cols[j], 0, n)]}})

\* tail that slices from the start of every column.
tail_from_start(self, n) ==
  Only({Sliced(sliced, self.header_row) :
          sliced \in {[j \in 1..Len(self.cols) |->
                         IF n > Series_size(self.cols[j]) THEN Panic
                         ELSE Series_slice(self.cols[j], 0, n)]}})

\* x.size() - n on usize: the subtraction overflows when n > size (a panic in
\* a debug build; in a release build the wrapped start exceeds end and the
\* slice index panics).
DataFrame_tail(self, n) ==
  Only({Sliced(sliced, self.header_row) :
          sliced \in {[j \in 1..Len(self.cols) |->
                         IF n > Series_size(self.cols[j]) THEN Panic
                         ELSE Series_slice(self.cols[j],
                                           Series_size(self.cols[j]) - n,
                                           Series_size(self.cols[j]))]}})

ScalarOp(f, s, n) ==
  CASE f = "plus" -> Series_plus(s, n)
    [] f = "sub" -> Series_sub(s, n)
    [] f = "mult" -> Series_mult(s, n)
    [] f = "div" -> Series_div(s, n)

\* plus, sub, mult, div
DataFrame_scalar(self, f, n) ==
  DataFrame_new([j \in 1..Len(self.cols) |-> ScalarOp(f, self.cols[j], n)],
                Some(self.header_row))

\* Vec::insert(index, element), index 0-based; panics when index > len.
VecInsert(v, index, x) ==
  IF index > Len(v) THEN Panic
  ELSE Ok(SubSeq(v, 1, index) \o <<x>> \o SubSeq(v, index + 1, Len(v)))

DataFrame_insert_col(self, pos, column_name, column) ==
  LET cols == VecInsert(self.cols, pos, column)
      headers == VecInsert(self.header_row, pos, column_name)
  IN IF pos > Len(self.cols) + 1 THEN Panic
     ELSE IF ~cols.ok \/ ~headers.ok THEN Panic
     ELSE Ok([header_row |-> headers.val,
              cols |-> cols.val,
              rows |-> self.rows,
              size |-> Len(cols.val) * Len(self.rows)])

\* impl From<Vec<Vec<T>>>: the argument is the list of rows.
From2dOf(data, t) ==
  LET first == IF Len(data) > 0 THEN data[1] ELSE Series_zero
  IN IF ~t.ok THEN Panic
     ELSE Ok([header_row |-> gen_default_header(Series_size(first)),
              cols |-> t.val,
              rows |-> data,
              size |-> Len(data) * Len(t.val)])

DataFrame_from_2d(data) == Only({From2dOf(data, t) : t \in {transpose(data)}})

\* str::parse::<f64> on one CSV token; whatever does not parse becomes NaN.
ParseF64(elt) ==
  CASE elt = "1" -> F(1, 1)
    [] elt = "2" -> F(2, 1)
    [] elt = "-1" -> F(-1, 1)
    [] elt = "0.5" -> F(1, 2)
    [] OTHER -> NaN

\* read_csv on a file given as its lines, each line as its comma-separated
\* tokens; lines[0] panics on a file without lines.
ParsedLines(lines) ==
  [k \in 1..(Len(lines) - 1) |->
     [j \in 1..Len(lines[k + 1]) |-> ParseF64(lines[k + 1][j])]]

CsvOf(header_row, data, t) ==
  IF ~t.ok THEN Panic
  ELSE Ok([header_row |-> header_row,
           cols |-> t.val,
           rows |-> data,
           size |-> Len(data) * Len(t.val)])

read_csv(lines) ==
  IF Len(lines) = 0 THEN Panic
  ELSE Only({CsvOf(lines[1], data, transpose(data)) : data \in {ParsedLines(lines)}})

(* ------------------------------ inputs --------------------------------- *)
\* Cell values of the Series under test.
SVals == {NaN, F(-1, 1), F(1, 1), F(2, 1)}

SeqsUpTo(S, k) == UNION {[1..m -> S] : m \in 0..k}

\* A Series at or above the parallel threshold: a short prefix followed by
\* missing values.
Padded(prefix) ==
  prefix \o [i \in 1..(LOWER_PAR_BOUND - Len(prefix)) |-> NaN]

SmallSeries == SeqsUpTo(SVals, MaxLen)

LargeSeries == {Padded(p) : p \in SeqsUpTo(SVals, MaxPrefix)}

SeriesInputs == SmallSeries \cup LargeSeries

\* Series without missing values around the cutoff of cumsum's prefix_sum,
\* and one that recurses twice: all ones, 2 and 1 in turn, and 1, 2, -1 in
\* turn.
LongLens ==
  {CUMSUM_CUTOFF + k : k \in 0..MaxOver} \cup {2 * CUMSUM_CUTOFF + 1}

LongSeries ==
  UNION {{[i \in 1..n |-> One],
          [i \in 1..n |-> IF i % 2 = 1 THEN F(2, 1) ELSE One],
          [i \in 1..n |-> <<One, F(2, 1), F(-1, 1)>>[(i % 3) + 1]]}
         : n \in LongLens}

\* The other operand of dot, vadd and vsub: Series of the size of s and of
\* other sizes.
Others(s) ==
  {s, [i \in 1..Len(s) |-> F(2, 1)], <<>>, <<F(2, 1)>>, <<One, NaN>>,
   s \o <<One>>}

\* The characters of a string: a letter and a delimiter.
Chars == {"a", ","}

\* A string of SCAN_CUTOFF + over characters: letters between two ends.
BigStr(prefix, suffix, over) ==
  prefix
    \o [i \in 1..(SCAN_CUTOFF + over - Len(prefix) - Len(suffix)) |-> "a"]
    \o suffix

SmallStrings == SeqsUpTo(Chars, MaxStr)

BigStrings ==
  {BigStr(prefix, suffix, over) :
     prefix \in SeqsUpTo(Chars, 1), suffix \in {<<>>, <<",">>},
     over \in 0..MaxOver}

CharIs(c) == [kind |-> "char", ch |-> c]

\* The predicates handed to par_filter.
Preds ==
  {CharIs(c) : c \in Chars}
    \cup {[kind |-> k, ch |-> ""] : k \in {"even", "all", "none"}}

\* The calls of par_split(st, ',') and of par_filter(enumerated st, p).
Calls(strings, preds) ==
  {[entry |-> "par_split", st |-> st, p |-> CharIs(",")] : st \in strings}
    \cup {[entry |-> "par_filter", st |-> st, p |-> p] :
             st \in strings, p \in preds}

SmallCalls == Calls(SmallStrings, Preds)

BigCalls == Calls(BigStrings, {[kind |-> "all", ch |-> ""]})

\* The bounds handed to slice: from 0 to one past the size.
SliceBounds(s) == 0..(Len(s) + 1)

\* The indices handed to iloc: inside and outside of the Series.
IlocIndices(s) == {0, 1, Len(s) - 1, Len(s), Len(s) + 1} \cap Nat

\* The columns a table is built from: constant, ascending, one
\* leading missing value, all missing.
ColPatterns(r) ==
  {[i \in 1..r |-> F(1, 1)],
   [i \in 1..r |-> F(i, 1)],
   [i \in 1..r |-> IF i = 1 THEN NaN ELSE F(2, 1)],
   [i \in 1..r |-> NaN]}

\* Rectangular lists of c Series of r cells each.  The constructors get lists
\* with at least one cell per Series; Series without cells come from head(0),
\* tail(0) and dropna.
Grids(c, r) == [1..c -> ColPatterns(r)]

ColLists == UNION {Grids(c, r) : c \in 0..MaxCols, r \in 1..MaxRows}

\* The lists of Series handed to transpose: rectangular, from no Series to
\* MaxCols of them, from no cell to MaxRows + 1 cells each.
Matrices == UNION {Grids(c, r) : c \in 0..MaxCols, r \in 0..(MaxRows + 1)}

\* The names asked of loc_col: given ones, default ones and an absent one.
Names == {"a", "b", "0", "1", "z"}

Alphabet == <<"a", "b", "c", "d", "e">>

Headers(c) == {None, Some(SubSeq(Alphabet, 1, c))}

\* The data lines of a CSV file of width w: all numeric, or led by a token
\* that is no number.
CsvLines(w) == {[j \in 1..w |-> "1"], [j \in 1..w |-> IF j = 1 THEN "x" ELSE "2"]}

CsvFiles ==
  UNION {{<<SubSeq(Alphabet, 1, w)>> \o body : body \in [1..r -> CsvLines(w)]} :
           w \in 1..MaxCols, r \in 1..MaxRows}

Scalars == {F(2, 1)}

InsertCols(r) == {[i \in 1..r |-> F(2, 1)]}

Reductions == {"sum", "prod", "mean", "median", "mode", "var", "std",
               "min", "max", "cumsum"}

ExactTable(d) ==
  /\ \A j \in 1..Len(d.cols) : \A i \in 1..Len(d.cols[j]) : IsExact(d.cols[j][i])
  /\ \A j \in 1..Len(d.rows) : \A i \in 1..Len(d.rows[j]) : IsExact(d.rows[j][i])

(* --------------------------- state machine ----------------------------- *)
NoOp == [op |-> "none", axis |-> 0, n |-> 0, name |-> "", col |-> <<>>, x |-> Zero]

NoTable == [header_row |-> <<>>, cols |-> <<>>, rows |-> <<>>, size |-> 0]

\* No question asked of the current table yet.
NoAnswer == [q |-> "none", name |-> "", res |-> Ok(<<>>)]

\* No list of Series handed to transpose.
NoGrid == [src |-> <<>>, cur |-> Ok(<<>>), n |-> 0]

DfIdle ==
  /\ df = NoTable /\ recv = NoTable /\ top = NoOp /\ tstat = "idle" /\ steps = 0
  /\ qres = NoAnswer

TableIdle == DfIdle /\ grid = NoGrid

NoArg == [idx |-> 0, end |-> 0, other |-> <<>>]

SeriesIdle == ser = <<>> /\ sop = "none" /\ sarg = NoArg /\ sres = Ok(<<>>)

NoCall == [entry |-> "none", st |-> <<>>, p |-> CharIs("")]

NoFrame ==
  [pc |-> "idle", mask |-> <<>>, indices |-> <<>>, n |-> 0, output |-> <<>>,
   writes |-> <<>>, pending |-> {}]

FrameIdle == pf = NoFrame /\ fout = Ok(<<>>) /\ pieces = Ok(<<>>)

FilterIdle == fin = NoCall /\ FrameIdle

Init == TableIdle /\ SeriesIdle /\ FilterIdle

\* Series::new on a Series below the parallel threshold.
InitSeries ==
  /\ TableIdle /\ FilterIdle
  /\ ser \in SmallSeries /\ sop = "new" /\ sarg = NoArg /\ sres = Ok(ser)

\* Series::new on a Series of any size.
InitAnySize ==
  /\ TableIdle /\ FilterIdle
  /\ ser \in SeriesInputs /\ sop = "new" /\ sarg = NoArg /\ sres = Ok(ser)

\* Series::new on a Series below or above the cutoff of cumsum.
InitCumsum ==
  /\ TableIdle /\ FilterIdle
  /\ ser \in SmallSeries \cup LongSeries
  /\ sop = "new" /\ sarg = NoArg /\ sres = Ok(ser)

\* The outcome of a call: the table it returns becomes the current one, a
\* panic ends the run.  steps counts the calls made on a constructed table.
Outcome(res, t) ==
  /\ recv' = df
  /\ top' = t
  /\ steps' = IF tstat = "idle" THEN 0 ELSE steps + 1
  /\ df' = IF res.ok THEN res.val ELSE df
  /\ tstat' = IF res.ok THEN "ok" ELSE "panic"
  /\ UNCHANGED <<qres, grid, svars, fvars>>

Live == tstat = "ok" /\ steps < MaxSteps

New ==
  /\ tstat = "idle"
  /\ \E data \in ColLists : \E h \in Headers(Len(data)) :
       \E res \in {DataFrame_new(data, h)} :
         Outcome(res, [NoOp EXCEPT !.op = "new"])

From2D ==
  /\ tstat = "idle"
  /\ \E data \in ColLists :
       \E res \in {DataFrame_from_2d(data)} :
         Outcome(res, [NoOp EXCEPT !.op = "from_2d"])

ReadCsv ==
  /\ tstat = "idle"
  /\ \E lines \in CsvFiles :
       \E res \in {read_csv(lines)} :
         Outcome(res, [NoOp EXCEPT !.op = "read_csv"])

Reduce ==
  /\ Live /\ ExactTable(df)
  /\ \E m \in Reductions : \E axis \in {0, 1} :
       \E res \in {DataFrame_reduce(df, m, axis)} :
         Outcome(res, [NoOp EXCEPT !.op = m, !.axis = axis])

DropNa ==
  /\ Live
  /\ \E axis \in {0, 1} :
       \E res \in {DataFrame_dropna(df, axis)} :
         Outcome(res, [NoOp EXCEPT !.op = "dropna", !.axis = axis])

HeadRows ==
  /\ Live
  /\ \E n \in 0..(MaxRows + 1) :
       \E res \in {DataFrame_head(df, n)} :
         Outcome(res, [NoOp EXCEPT !.op = "head", !.n = n])

TailRows ==
  /\ Live
  /\ \E n \in 0..(MaxRows + 1) :
       \E res \in {DataFrame_tail(df, n)} :
         Outcome(res, [NoOp EXCEPT !.op = "tail", !.n = n])

Copy ==
  /\ Live
  /\ \E res \in {DataFrame_copy(df)} :
       Outcome(res, [NoOp EXCEPT !.op = "copy"])

Scalar ==
  /\ Live /\ ExactTable(df)
  /\ \E f \in {"plus", "sub", "mult", "div"} : \E x \in Scalars :
       \E res \in {DataFrame_scalar(df, f, x)} :
         Outcome(res, [NoOp EXCEPT !.op = f, !.x = x])

InsertCol ==
  /\ Live
  /\ \E pos \in 0..(Len(df.cols) + 2) : \E name \in {"a"} :
     \E column \in InsertCols(Len(df.rows)) :
       \E res \in {DataFrame_insert_col(df, pos, name, column)} :
         Outcome(res, [NoOp EXCEPT !.op = "insert_col", !.n = pos,
                                   !.name = name, !.col = column])

\* A question asked of the current table: the table stays as it is.
Ask(q, name, res) ==
  /\ tstat = "ok"
  /\ qres' = [q |-> q, name |-> name, res |-> res]
  /\ tstat' = "asked"
  /\ UNCHANGED <<df, recv, top, steps, grid, svars, fvars>>

LocCol ==
  \E name \in Names :
    \E res \in {DataFrame_loc_col(df, name)} : Ask("loc_col", name, res)

\* t == t on the current table.
EqSelf == Ask("eq", "self", Ok(DataFrame_eq(df, df)))

\* t.copy() == t, asked of the copy and its receiver.
EqCopy == top.op = "copy" /\ Ask("eq", "copy", Ok(DataFrame_eq(df, recv)))

Next ==
  \/ New \/ From2D \/ ReadCsv
  \/ Reduce \/ DropNa \/ HeadRows \/ TailRows \/ Copy \/ Scalar \/ InsertCol
  \/ LocCol \/ EqSelf \/ EqCopy

Spec == Init /\ [][Next]_vars

\* A list of Series about to be transposed.
InitTranspose ==
  /\ DfIdle /\ SeriesIdle /\ FilterIdle
  /\ \E data \in Matrices : grid = [src |-> data, cur |-> Ok(data), n |-> 0]

\* transpose applied to what the last application returned.
Transpose ==
  /\ grid.n < 2 /\ grid.cur.ok
  /\ \E res \in {transpose(grid.cur.val)} :
       grid' = [grid EXCEPT !.cur = res, !.n = @ + 1]
  /\ UNCHANGED <<df, recv, top, tstat, steps, qres, svars, fvars>>

NextTranspose == Transpose

SpecTranspose == InitTranspose /\ [][NextTranspose]_vars

\* One call on the Series under test, with its argument.  A Series is
\* never changed by a call, so every call starts from the constructed one.
CallWith(m, arg, res) ==
  /\ sop = "new"
  /\ sop' = m
  /\ sarg' = arg
  /\ sres' = res
  /\ UNCHANGED <<ser, tvars, fvars>>

Call(m, res) == CallWith(m, NoArg, res)

Mean == Call("mean", Ok(Series_mean(ser)))

Median == Call("median", Ok(Series_median(ser)))

Mode == Call("mode", Series_mode(ser))

Min == Call("min", Series_min(ser))

Max == Call("max", Series_max(ser))

Sum == Call("sum", Ok(Series_sum(ser)))

Prod == Call("prod", Ok(Series_prod(ser)))

Var == Call("var", Ok(Series_var(ser)))

DropnaSeries == Call("dropna", Ok(Series_dropna(ser)))

Isna == Call("isna", Ok(Series_isna(ser)))

Notna == Call("notna", Ok(Series_notna(ser)))

Iloc ==
  \E idx \in IlocIndices(ser) :
    CallWith("iloc", [NoArg EXCEPT !.idx = idx],
             IF Series_iloc(ser, idx).ok THEN Ok(<<Series_iloc(ser, idx).val>>)
             ELSE Panic)

Dot ==
  \E other \in Others(ser) :
    CallWith("dot", [NoArg EXCEPT !.other = other], Series_dot(ser, other))

Vadd ==
  \E other \in Others(ser) :
    CallWith("vadd", [NoArg EXCEPT !.other = other], Series_vadd(ser, other))

Vsub ==
  \E other \in Others(ser) :
    CallWith("vsub", [NoArg EXCEPT !.other = other], Series_vsub(ser, other))

Cumsum == Call("cumsum", Series_cumsum(ser))

NextSeries ==
  \/ Mean \/ Median \/ Mode \/ Min \/ Max
  \/ Sum \/ Prod \/ Var \/ DropnaSeries \/ Isna \/ Notna
  \/ Iloc \/ Dot \/ Vadd \/ Vsub

SpecSeries == InitSeries /\ [][NextSeries]_vars

SpecAnySize == InitAnySize /\ [][NextSeries]_vars

NextCumsum == Cumsum

SpecCumsum == InitCumsum /\ [][NextCumsum]_vars

Std == Call("std", Series_std(ser))

Slice ==
  \E start \in SliceBounds(ser) : \E end \in SliceBounds(ser) :
    CallWith("slice", [NoArg EXCEPT !.idx = start, !.end = end],
             Series_slice(ser, start, end))

NextSliceStd == Slice \/ Std

SpecSliceStd == InitSeries /\ [][NextSliceStd]_vars

\* A call of par_filter or par_split on a string below the cutoff of the
\* scan, its parallel fill taken one closure at a time.
InitFilter ==
  /\ TableIdle /\ SeriesIdle
  /\ fin \in SmallCalls /\ FrameIdle

\* A call of par_filter or par_split on a string of any size.
InitSplit ==
  /\ TableIdle /\ SeriesIdle
  /\ fin \in SmallCalls \cup BigCalls /\ FrameIdle

\* par_filter, lines 78-85: the mask, the scan, the output buffer.
FilterStart ==
  /\ pf.pc = "idle"
  /\ pf' = Alloc(Enumerated(fin.st), fin.p)
  /\ UNCHANGED <<fin, fout, pieces, svars, tvars>>

\* One closure of the parallel for_each, for any source index still to do.
FilterWrite ==
  /\ pf.pc = "fill"
  /\ \E i \in pf.pending : pf' = WriteStep(pf, Enumerated(fin.st), i)
  /\ UNCHANGED <<fin, fout, pieces, svars, tvars>>

\* for_each has joined: par_filter returns the buffer.
FilterJoin ==
  /\ pf.pc = "fill" /\ pf.pending = {}
  /\ \E res \in Returned(pf.output) :
       /\ fout' = res
       /\ pf' = [pf EXCEPT !.pc = "returned"]
  /\ UNCHANGED <<fin, pieces, svars, tvars>>

\* par_split, lines 105-109, on what par_filter returned.
SplitWindows ==
  /\ pf.pc = "returned" /\ fin.entry = "par_split"
  /\ pieces' = Windows(fin.st, Boundaries(fin.st, fout.val))
  /\ pf' = [pf EXCEPT !.pc = "split"]
  /\ UNCHANGED <<fin, fout, svars, tvars>>

NextFilter == FilterStart \/ FilterWrite \/ FilterJoin \/ SplitWindows

SpecFilter == InitFilter /\ [][NextFilter]_vars

\* A whole call of par_filter.
ParFilter ==
  /\ pf.pc = "idle" /\ fin.entry = "par_filter"
  /\ \E f \in par_filter(Enumerated(fin.st), fin.p) :
       IF f.pc = "panic"
       THEN pf' = f /\ fout' = Panic
       ELSE \E res \in Returned(f.output) :
              pf' = [f EXCEPT !.pc = "returned"] /\ fout' = res
  /\ UNCHANGED <<fin, pieces, svars, tvars>>

\* A whole call of par_split.
ParSplit ==
  /\ pf.pc = "idle" /\ fin.entry = "par_split"
  /\ \E f \in par_filter(Enumerated(fin.st), fin.p) :
       IF f.pc = "panic"
       THEN pf' = f /\ fout' = Panic /\ pieces' = Panic
       ELSE \E res \in Returned(f.output) :
              /\ pf' = [f EXCEPT !.pc = "split"]
              /\ fout' = res
              /\ pieces' = Windows(fin.st, Boundaries(fin.st, res.val))
  /\ UNCHANGED <<fin, svars, tvars>>

NextSplit == ParFilter \/ ParSplit

SpecSplit == InitSplit /\ [][NextSplit]_vars

(* ------------------------- reference notions --------------------------- *)
HasNaN(s) == \E i \in 1..Len(s) : is_nan(s[i])

Valid(s) == SelectSeq(s, LAMBDA x : ~is_nan(x))

Range(s) == {s[i] : i \in 1..Len(s)}

Total(s) == SeqFold("sum", Zero, s, 1)

\* Sample variance (denominator n - 1) of a Series without missing values.
SampleVar(s) ==
  LET n == F(Len(s), 1)
      mu == FDiv(Total(s), n)
  IN FDiv(Total([i \in 1..Len(s) |-> FMul(FSub(s[i], mu), FSub(s[i], mu))]),
          FSub(n, One))

Count(v, s) == Cardinality({i \in 1..Len(s) : s[i] = v})

\* The values of s that occur most often.
MostFrequent(s) ==
  {v \in Range(s) : \A w \in Range(s) : Count(w, s) <= Count(v, s)}

Least(S) == CHOOSE v \in S : \A w \in S : ~FLt(w, v)

Greatest(S) == CHOOSE v \in S : \A w \in S : ~FGt(w, v)

Rectangular(d) ==
  \A j \in 1..Len(d.cols) : Len(d.cols[j]) = Len(d.cols[1])

\* The indices of the rows of d without a missing value, ascending.
SurvivingRows(d) ==
  SelectSeq([i \in 1..Len(d.rows) |-> i], LAMBDA i : ~HasNaN(d.rows[i]))

ScalarReductions == {"sum", "prod", "mean", "median", "mode", "min", "max"}

\* The methods that choose between a sequential and a parallel branch.
StrategyOps == {"sum", "prod", "min", "max", "var", "dropna", "isna", "notna"}

\* The positions of the valid values of s, and the k-th of them.
ValidAt(s) == {i \in 1..Len(s) : ~is_nan(s[i])}

NthValid(s, k) ==
  CHOOSE i \in ValidAt(s) : Cardinality({j \in ValidAt(s) : j < i}) = k - 1

\* The 1-based positions of the elements of the call's string that satisfy
\* its predicate: the 0-based source index + 1.
Satisfying(call) ==
  {i \in 1..Len(call.st) : Applies(call.p, <<i - 1, call.st[i]>>)}

\* The k-th smallest element of a set of numbers.
NthOf(S, k) == CHOOSE i \in S : Cardinality({j \in S : j < i}) = k - 1

\* s split on the character c: the part before the first c, then the rest
\* split on c.
RECURSIVE SplitOn(_, _)
SplitOn(s, c) ==
  IF \A i \in 1..Len(s) : s[i] # c THEN <<s>>
  ELSE Only({<<SubSeq(s, 1, i - 1)>> \o SplitOn(SubSeq(s, i + 1, Len(s)), c) :
               i \in {CHOOSE i \in 1..Len(s) :
                        s[i] = c /\ \A j \in 1..(i - 1) : s[j] # c}})

\* The positions of the header entries equal to name.
Carrying(d, name) == {j \in 1..Len(d.header_row) : d.header_row[j] = name}

\* v with x put at the 0-based index pos.
InsertedAt(v, pos, x) == SubSeq(v, 1, pos) \o <<x>> \o SubSeq(v, pos + 1, Len(v))

\* Some cell of the table is missing.
HasMissing(d) == \E j \in 1..Len(d.cols) : HasNaN(d.cols[j])

\* min(end, size).
ClampedEnd(s, end) == IF end < Len(s) THEN end ELSE Len(s)

\* s[0] + .. + s[i-1], summed from the left.
PrefixTotal(s, i) == FoldRange("sum", Zero, s, 1, i)

(* ------------------------------ claims --------------------------------- *)
\* C1: in every reachable table the cached rows are the transpose of the
\* columns.
C1_RowsAreTransposedCols == TransposeOf(df.cols) = Ok(df.rows)

\* C2: in every reachable table the header has exactly one entry per column.
C2_HeaderPerColumn == Len(df.header_row) = Len(df.cols)

\* C3: dropna(0) returns exactly the columns of the receiver that hold no
\* NaN, in their original order.
C3_DropnaKeepsValidColumns ==
  (top.op = "dropna" /\ top.axis = 0 /\ tstat = "ok")
    => df.cols = SelectSeq(recv.cols, LAMBDA c : ~HasNaN(c))

\* C3 witness: dropna(0) removed a column and kept another one.
C3_Witness ==
  /\ top.op = "dropna" /\ top.axis = 0 /\ tstat = "ok"
  /\ Len(df.cols) >= 1 /\ Len(df.cols) < Len(recv.cols)
  /\ Len(recv.rows) >= 2

\* C4: dropna(1) returns the rows of the receiver that hold no NaN, in their
\* original order: they are the rows of the result, and each column of the
\* result is the receiver's column restricted to them.
C4_DropnaKeepsValidRows ==
  (top.op = "dropna" /\ top.axis = 1 /\ tstat = "ok")
    => LET keep == SurvivingRows(recv)
       IN /\ df.rows = [k \in 1..Len(keep) |-> recv.rows[keep[k]]]
          /\ df.cols = [j \in 1..Len(recv.cols) |->
                          [k \in 1..Len(keep) |-> recv.cols[j][keep[k]]]]

\* C5: var(axis) and std(axis) hold one value per NaN-free series of the
\* receiver along that same axis (columns for 0, rows for 1): its sample
\* variance, respectively the square root of it.
C5_VarStdAlongAxis ==
  (top.op \in {"var", "std"} /\ tstat = "ok")
    => LET src == IF top.axis = 0 THEN recv.cols ELSE recv.rows
           valid == SelectSeq(src, LAMBDA s : ~HasNaN(s))
           Stat(s) == IF Len(s) = 0 THEN <<>>
                      ELSE IF top.op = "var" THEN <<SampleVar(s)>>
                      ELSE <<sqrt(SampleVar(s))>>
       IN df.cols = [i \in 1..Len(valid) |-> Stat(valid[i])]

\* C6: a scalar reduction of a rectangular table succeeds; along axis 0 it
\* keeps the header and holds one value per column, along axis 1 it has the
\* default header and holds one value per row.
C6_ReduceOneValuePerSeries ==
  (top.op \in ScalarReductions /\ tstat # "idle" /\ Rectangular(recv))
    => LET src == IF top.axis = 0 THEN recv.cols ELSE recv.rows
       IN /\ tstat = "ok"
          /\ Len(df.cols) = Len(src)
          /\ \A j \in 1..Len(df.cols) :
               /\ Len(df.cols[j]) = 1
               /\ df.cols[j] = SeriesMethod(top.op, src[j]).val
          /\ df.header_row = IF top.axis = 0 THEN recv.header_row
                             ELSE gen_default_header(Len(df.cols))

\* C7: mean is sum(valid) / count(valid), and the empty result when no valid
\* value exists.
C7_MeanOverValid ==
  sop = "mean"
    => sres = Ok(IF Len(Valid(ser)) = 0 THEN <<>>
                 ELSE <<FDiv(Total(Valid(ser)), F(Len(Valid(ser)), 1))>>)

\* C8: median is empty without a valid value, the value itself for exactly
\* one valid value, the middle element for an odd and the mean of the two
\* central elements for an even count; it never has more than one element.
C8_MedianOfValid ==
  sop = "median"
    => LET sorted == Series_sort(Valid(ser))
           n == Len(sorted)
       IN sres = Ok(IF n = 0 THEN <<>>
                    ELSE IF n % 2 = 1 THEN <<sorted[(n + 1) \div 2]>>
                    ELSE <<FMul(FAdd(sorted[n \div 2], sorted[n \div 2 + 1]), Half)>>)

\* C9: when several distinct values occur most often, mode returns the
\* smallest of them.
C9_ModeTieSmallest ==
  (sop = "mode" /\ sres.ok /\ Cardinality(MostFrequent(Valid(ser))) >= 2)
    => /\ Len(sres.val) >= 1
       /\ \A i \in 1..Len(sres.val) : sres.val[i] = Least(MostFrequent(Valid(ser)))

\* C10: on a Series with a valid value, of any size, min returns the least
\* and max the greatest valid value, an element of the Series.
C10_MinMaxOfValid ==
  (sop \in {"min", "max"} /\ Len(Valid(ser)) >= 1)
    => /\ sres.ok
       /\ Len(sres.val) = 1
       /\ sres.val[1] \in Range(Valid(ser))
       /\ sres.val[1] = IF sop = "min" THEN Least(Range(Valid(ser)))
                        ELSE Greatest(Range(Valid(ser)))

\* C11: min and max of a Series without a valid value (empty, or all NaN)
\* return the empty result: no failure, no sentinel number.
C11_MinMaxEmpty ==
  (sop \in {"min", "max"} /\ Len(Valid(ser)) = 0) => sres = Ok(<<>>)

\* C12: every method that dispatches on the size computes the same result in
\* its sequential and in its parallel branch, which is the result returned.
C12_StrategiesAgree ==
  sop \in StrategyOps
    => /\ Sequential(sop, ser) = Parallel(sop, ser)
       /\ sres \in {Sequential(sop, ser), Parallel(sop, ser)}

\* C13: dropna is the subsequence of the valid values in their order and its
\* isna mask holds no 1; isna and notna have the length of the Series and are
\* the complementary 0/1 masks of the missing values.
C13_DropnaIsnaNotna ==
  /\ sop = "dropna"
       => /\ sres.ok
          /\ Len(sres.val) = Cardinality(ValidAt(ser))
          /\ \A k \in 1..Len(sres.val) : sres.val[k] = ser[NthValid(ser, k)]
          /\ \A k \in 1..Len(sres.val) : Series_isna(sres.val)[k] # One
  /\ sop = "isna"
       => /\ sres.ok
          /\ Len(sres.val) = Len(ser)
          /\ \A i \in 1..Len(ser) :
               sres.val[i] = IF is_nan(ser[i]) THEN One ELSE Zero
  /\ sop = "notna"
       => /\ sres.ok
          /\ Len(sres.val) = Len(ser)
          /\ \A i \in 1..Len(ser) :
               sres.val[i] = IF is_nan(ser[i]) THEN Zero ELSE One

\* C13 witness: dropna of a Series at the parallel threshold kept two
\* different values and dropped the others.
C13_Witness ==
  /\ sop = "dropna" /\ sres.ok
  /\ Len(ser) >= LOWER_PAR_BOUND
  /\ Len(sres.val) = 2 /\ sres.val[1] # sres.val[2]

C15_ScanExclusive ==
  pf.pc # "idle"
    => /\ Len(pf.indices) = Len(pf.mask)
       /\ Len(pf.mask) >= 1 => pf.indices[1] = 0
       /\ \A i \in 1..(Len(pf.mask) - 1) :
            pf.indices[i + 1] = pf.indices[i] + pf.mask[i]
       /\ pf.n = IF Len(pf.mask) = 0 THEN 0
                 ELSE pf.indices[Len(pf.mask)] + pf.mask[Len(pf.mask)]

\* C15 witness: a scan above the cutoff, of odd length, whose last element
\* counts.
C15_Witness ==
  /\ pf.pc # "idle"
  /\ Len(pf.mask) > SCAN_CUTOFF /\ Len(pf.mask) % 2 = 1
  /\ pf.mask[Len(pf.mask)] = 1 /\ pf.n >= 2

\* C16: par_filter returns as many entries as elements satisfy the
\* predicate, the k-th being the source index + 1 of the k-th satisfying
\* element: the entries ascend and are exactly the satisfying positions.
C16_FilterKeepsOrder ==
  pf.pc # "idle"
    => /\ fout.ok
       /\ pf.pc # "fill" =>
            /\ Len(fout.val) = Cardinality(Satisfying(fin))
            /\ {fout.val[k] : k \in 1..Len(fout.val)} = Satisfying(fin)
            /\ \A k \in 1..(Len(fout.val) - 1) : fout.val[k] < fout.val[k + 1]

\* C16 witness: par_filter kept several elements and dropped others.
C16_Witness ==
  /\ fin.entry = "par_filter" /\ pf.pc = "returned" /\ fout.ok
  /\ Len(fout.val) >= 2 /\ Len(fout.val) < Len(fin.st)

\* C17: under every interleaving of the closures no slot is written twice,
\* no write falls outside of the buffer, the buffer is returned when every
\* closure has run, every slot then written exactly once, and it holds the
\* same entries whatever the schedule.
C17_DisjointWrites ==
  /\ pf.pc # "panic"
  /\ \A k \in 1..Len(pf.writes) : Cardinality(pf.writes[k]) <= 1
  /\ pf.pc \in {"idle", "fill"} => fout = Ok(<<>>)
  /\ pf.pc \in {"returned", "split"}
       => /\ pf.pending = {}
          /\ Len(pf.writes) = Cardinality(Satisfying(fin))
          /\ \A k \in 1..Len(pf.writes) : Cardinality(pf.writes[k]) = 1
          /\ fout = Ok([k \in 1..Cardinality(Satisfying(fin)) |->
                          NthOf(Satisfying(fin), k)])

\* C17 witness: the buffer was returned after several writes.
C17_Witness ==
  pf.pc = "returned" /\ pf.pending = {} /\ pf.n >= 2 /\ Len(fout.val) >= 2

\* C18: par_split returns the pieces of the string between its delimiters,
\* in order, empty pieces included.
C18_SplitPieces ==
  (fin.entry = "par_split" /\ pf.pc # "idle")
    => pieces = Ok(SplitOn(fin.st, fin.p.ch))

\* C18 witness: a string above the cutoff of the scan was split in three.
C18_Witness ==
  /\ fin.entry = "par_split" /\ pf.pc = "split" /\ pieces.ok
  /\ Len(fin.st) > SCAN_CUTOFF /\ Len(pieces.val) = 3

C20_VectorOps ==
  sop \in {"dot", "vadd", "vsub"}
    => IF Len(ser) # Len(sarg.other) THEN ~sres.ok
       ELSE /\ sres.ok
            /\ sop = "vadd" =>
                 sres.val = [i \in 1..Len(ser) |-> FAdd(ser[i], sarg.other[i])]
            /\ sop = "vsub" =>
                 sres.val = [i \in 1..Len(ser) |-> FSub(ser[i], sarg.other[i])]
            /\ sop = "dot" =>
                 sres.val = <<Total([i \in 1..Len(ser) |->
                                       FMul(ser[i], sarg.other[i])])>>

\* C20 witness: vadd failed on two non-empty Series of different sizes.
C20_Witness ==
  /\ sop = "vadd" /\ ~sres.ok
  /\ Len(ser) >= 1 /\ Len(sarg.other) >= 1 /\ Len(ser) # Len(sarg.other)

\* C21: slice(start, end) never fails: it returns the elements at positions
\* start .. min(end, size) - 1 in order, the empty Series when start is not
\* below the clamped end.
C21_SliceClamps ==
  sop = "slice"
    => sres = Ok(IF sarg.idx < ClampedEnd(ser, sarg.end)
                 THEN [i \in 1..(ClampedEnd(ser, sarg.end) - sarg.idx) |->
                         ser[sarg.idx + i]]
                 ELSE <<>>)

\* C26: std is sqrt(var) when var is defined, and the empty result without
\* a failure when the Series has no valid value.
C26_StdOfVar ==
  sop = "std"
    => sres = Ok(IF Valid(ser) = <<>> THEN <<>>
                 ELSE <<sqrt(SampleVar(Valid(ser)))>>)

\* C27: mode succeeds on every Series with at least one valid value, several
\* equal valid values included.
C27_ModeSucceeds ==
  (sop = "mode" /\ Valid(ser) # <<>>) => sres.ok

\* C28: cumsum never fails and returns a Series as long as its input, the
\* empty Series for the empty Series.
C28_CumsumTotal ==
  sop = "cumsum" => (sres.ok /\ Len(sres.val) = Len(ser))

\* C22: for n not above the row count, head(n) and tail(n) keep the header,
\* column j of the result holds the first, respectively the last, n elements
\* of column j of the receiver in order, and the rows of the result are the
\* transpose of its columns.
C22_HeadTailSlices ==
  (top.op \in {"head", "tail"} /\ tstat # "idle" /\ top.n <= Len(recv.rows))
    => /\ tstat # "panic"
       /\ df.header_row = recv.header_row
       /\ Len(df.cols) = Len(recv.cols)
       /\ \A j \in 1..Len(df.cols) :
            df.cols[j] = IF top.op = "head"
                         THEN SubSeq(recv.cols[j], 1, top.n)
                         ELSE SubSeq(recv.cols[j],
                                     Len(recv.cols[j]) - top.n + 1,
                                     Len(recv.cols[j]))
       /\ TransposeOf(df.cols) = Ok(df.rows)

\* C22 witness: tail kept some rows of a table of several columns and
\* dropped others.
C22_Witness ==
  /\ top.op = "tail" /\ tstat = "ok"
  /\ top.n >= 1 /\ top.n < Len(recv.rows) /\ Len(recv.cols) >= 2
  /\ Len(df.rows) = top.n

\* C23: insert_col(pos, name, column) fails exactly when pos is above the
\* number of columns + 1; otherwise the result holds the columns and the
\* header of the receiver with column and name put at index pos.
C23_InsertColAtPos ==
  (top.op = "insert_col" /\ tstat # "idle")
    => IF top.n > Len(recv.cols) + 1 THEN tstat = "panic"
       ELSE /\ tstat # "panic"
            /\ df.cols = InsertedAt(recv.cols, top.n, top.col)
            /\ df.header_row = InsertedAt(recv.header_row, top.n, top.name)

\* C24: a table equals itself and its copy, tables with missing cells
\* included.
C24_CopyEquals ==
  qres.q = "eq" => qres.res = Ok(TRUE)

\* C25 as stated: transposing twice gives back every list of at least one
\* Series of equal lengths, and the empty list is transposed to itself.
C25_TransposeTwice ==
  /\ (grid.n >= 1 /\ grid.src = <<>>) => grid.cur = Ok(<<>>)
  /\ (grid.n = 2 /\ Len(grid.src) >= 1) => grid.cur = Ok(grid.src)

\* C25 amended: transposing twice gives back every list of at least one
\* Series of equal lengths holding at least one cell each, cell by cell,
\* missing cells included; the empty list is transposed to itself.
C25_TransposeTwiceWithCells ==
  /\ (grid.n >= 1 /\ grid.src = <<>>) => grid.cur = Ok(<<>>)
  /\ (grid.n = 2 /\ Len(grid.src) >= 1 /\ Len(grid.src[1]) >= 1)
       => grid.cur = Ok(grid.src)

\* C25 witness: a list of several Series of several cells, one of them
\* missing, transposed twice.
C25_Witness ==
  /\ grid.n = 2 /\ grid.cur.ok
  /\ Len(grid.src) >= 2 /\ Len(grid.src[1]) >= 2
  /\ \E j \in 1..Len(grid.src) : HasNaN(grid.src[j])

\* C29: with n above the row count head(n) and tail(n) both succeed and
\* return all rows of the receiver.
C29_HeadTailClamp ==
  (top.op \in {"head", "tail"} /\ tstat # "idle" /\ top.n > Len(recv.rows))
    => /\ tstat # "panic"
       /\ df.header_row = recv.header_row
       /\ df.cols = recv.cols
       /\ df.rows = recv.rows

\* C30: loc_col(name) returns None when no header entry is the name, else
\* the column at the first position carrying it, without failing; after
\* dropna(0) that is the column that carried the name before the call.
C30_LocColByName ==
  qres.q = "loc_col"
    => /\ qres.res.ok
       /\ IF Carrying(df, qres.name) = {} THEN qres.res = Ok(None)
          ELSE qres.res = Ok(Some(df.cols[NthOf(Carrying(df, qres.name), 1)]))
       /\ (top.op = "dropna" /\ top.axis = 0 /\ Carrying(df, qres.name) # {}
             /\ Len(recv.header_row) = Len(recv.cols))
            => qres.res = Ok(Some(recv.cols[NthOf(Carrying(recv, qres.name), 1)]))

====
